---------------------------- MODULE Spec2Model ----------------------------
(***************************************************************************)
(* A model of the CTI production dashboard (streamlit_app.py) and of its   *)
(* Purchase Orders page: the risk classifier, the column reconciliation,   *)
(* the loader, the utilisation aggregation and the filtered views of one   *)
(* browser session.                                                        *)
(*                                                                         *)
(* Conventions.  A Python value that may be None / NaN / NaT is a sequence *)
(* of length 0 (absent) or 1 (present).  A calendar date is a record       *)
(* [year, month, day].  A text is a sequence of tokens that stand for its  *)
(* substrings, joined by single spaces.                                    *)
(***************************************************************************)
EXTENDS Integers, Sequences, FiniteSets

VARIABLES
    text,       \* SpecRisk: the Next_Uncovered_Order cell given to the classifier
    today,      \* SpecRisk: date.today()
    risk,       \* SpecRisk: the tuple parse_next_shortage returned, or NotRun
    headers,    \* SpecCols: the header row of the production sheet
    columns,    \* SpecCols: df.columns
    picked,     \* SpecCols: col_machine, col_customer, ... by canonical field
    colpc,      \* SpecCols: the place of the run in lines 133-166
    sheet,      \* SpecLoad: the frame of line 166, cells as the sheet gave them
    df,         \* the production frame: [columns, rows]
    metrics,    \* total_orders, total_value, machine_count: [run, ...]
    util_df,    \* the utilisation table: [run, rows]
    deleted,    \* SpecView: st.session_state.locally_deleted_keys
    sel,        \* SpecView: what the filter widgets returned in the last run
    filtered,   \* SpecView: the rows of the frame filtered, in order
    po_df,      \* SpecPO: the purchase order frame after line 537
    po_sel,     \* SpecPO: what the date_input of the last run returned
    po_filtered,\* SpecPO: the rows of po_filtered
    po_display, \* SpecPO: the rows of the table given to st.dataframe
    po_source,  \* SpecRun: what the purchase order source delivers
    pc,         \* SpecRun: the place of the run in the script
    raised,     \* SpecRun: the exception that ended the run, if any
    reported,   \* SpecRun: the messages the run has shown
    po_bound,   \* SpecRun: whether the name po_filtered is bound
    cache,      \* SpecCache: the entry st.cache_data holds for the loader
    clock,      \* SpecCache: seconds since the session began
    source,     \* SpecCache: the state of the sheet: its version, or down
    outcome,    \* SpecCache: what the last call of the loader did
    input,      \* SpecCoerce: a cell of a numeric or of a date column
    coerced,    \* SpecCoerce: what the coercion made of the cell
    csv         \* SpecExport: the header and the rows of a download

riskVars == <<text, today, risk>>
colVars == <<headers, columns, picked, colpc>>
frameVars == <<sheet, df, metrics, util_df>>
viewVars == <<deleted, sel, filtered>>
poVars == <<po_df, po_sel, po_filtered, po_display>>
runVars == <<po_source, pc, raised, reported, po_bound>>
cacheVars == <<cache, clock, source, outcome>>
coerceVars == <<input, coerced>>
restVars == <<runVars, cacheVars, coerceVars, csv>>
vars == <<riskVars, colVars, frameVars, viewVars, poVars, restVars>>

None == <<>>
Some(x) == <<x>>

\* The value of a result variable before the code that sets it has run.
NotRun == [level |-> "not run"]

(***************************************************************************)
(* Calendar arithmetic of datetime.date.                                   *)
(***************************************************************************)
Date(y, m, d) == [year |-> y, month |-> m, day |-> d]

IsLeap(y) == (y % 4 = 0 /\ y % 100 # 0) \/ y % 400 = 0

DaysInMonth(y, m) ==
    IF m = 2 THEN (IF IsLeap(y) THEN 29 ELSE 28)
    ELSE IF m \in {4, 6, 9, 11} THEN 30 ELSE 31

RECURSIVE DaysBeforeMonth(_, _)
DaysBeforeMonth(y, m) ==
    IF m <= 1 THEN 0 ELSE DaysBeforeMonth(y, m - 1) + DaysInMonth(y, m - 1)

DaysBeforeYear(y) ==
    (y - 1) * 365 + (y - 1) \div 4 - (y - 1) \div 100 + (y - 1) \div 400

\* date.toordinal(): the day number, 1 for 0001-01-01.
ToOrdinal(d) == DaysBeforeYear(d.year) + DaysBeforeMonth(d.year, d.month) + d.day

\* Whether day/month/year name a day of the calendar (what strptime accepts).
IsCalendarDate(y, m, d) ==
    /\ y >= 1
    /\ m \in 1..12
    /\ d >= 1
    /\ d <= DaysInMonth(y, m)

(***************************************************************************)
(* Texts.  A token is one of                                               *)
(*   sp       a run of extra white space,                                  *)
(*   word     a word with no digit in it ("Shortage"),                     *)
(*   covered  the phrase "all covered" in some letter case,                *)
(*   date     a maximal run of digits and separators that reads as         *)
(*            day SEP month SEP year, written with the given numbers of    *)
(*            digits (a 2-digit year yy stands for 20yy).                  *)
(***************************************************************************)
SpTok == [k |-> "sp"]
WordTok == [k |-> "word"]
CoveredTok(c) == [k |-> "covered", case |-> c]
DateTok(d, m, y, dd, md, yd, s) ==
    [k |-> "date", day |-> d, month |-> m, year |-> y,
     dayDigits |-> dd, monthDigits |-> md, yearDigits |-> yd, sep |-> s]

Str(toks) == [str |-> TRUE, toks |-> toks]
\* A cell that is not a str (NaN, a number).
NonText == [str |-> FALSE, toks |-> <<>>]

\* text.strip() == "": nothing but white space.
strip_is_empty(t) == \A i \in 1..Len(t.toks) : t.toks[i].k = "sp"

\* text.lower(): the letter case of every phrase becomes lower case.
lower(t) ==
    [i \in 1..Len(t.toks) |->
        IF t.toks[i].k = "covered" THEN CoveredTok("lower") ELSE t.toks[i]]

\* "all covered" in lower
contains_all_covered(low) ==
    \E i \in 1..Len(low) : low[i] = CoveredTok("lower")

\* A pattern that takes a date however it is written.
re_matches_any_shape(tok) == tok.k = "date"

\* Whether re's (\d{2})/(\d{2})/(\d{4}) matches inside the token.
re_matches(tok) ==
    /\ tok.k = "date"
    /\ tok.dayDigits = 2
    /\ tok.monthDigits = 2
    /\ tok.yearDigits = 4
    /\ tok.sep = "/"

\* re.search: the index of the leftmost match, 0 when there is none.
re_search(t) ==
    IF \E i \in 1..Len(t.toks) : re_matches(t.toks[i])
    THEN CHOOSE i \in 1..Len(t.toks) :
            /\ re_matches(t.toks[i])
            /\ \A j \in 1..(i - 1) : ~re_matches(t.toks[j])
    ELSE 0

\* The number of days from which a shortage counts as urgent.
UrgentDays == 3

Risk(level, d, days) == [level |-> level, date |-> d, days |-> days]

parse_next_shortage_strict(t, now) ==
    IF ~t.str \/ strip_is_empty(t) THEN Risk("Unknown", None, None)
    ELSE IF contains_all_covered(lower(t)) THEN Risk("Low", None, None)
    ELSE LET m == re_search(t) IN
        IF m # 0
        THEN LET tok == t.toks[m] IN
             IF IsCalendarDate(tok.year, tok.month, tok.day)
             THEN LET d == Date(tok.year, tok.month, tok.day)
                      days == ToOrdinal(d) - ToOrdinal(now)
                  IN IF days < UrgentDays
                     THEN Risk("High", Some(d), Some(days))
                     ELSE Risk("Medium", Some(d), Some(days))
             ELSE Risk("Unknown", None, None)
        ELSE Risk("Unknown", None, None)

parse_next_shortage(t, now) ==
    IF ~t.str \/ strip_is_empty(t) THEN Risk("Unknown", None, None)
    ELSE IF contains_all_covered(lower(t)) THEN Risk("Low", None, None)
    ELSE LET m == re_search(t) IN
        IF m # 0
        THEN LET tok == t.toks[m] IN
             IF IsCalendarDate(tok.year, tok.month, tok.day)
             THEN LET d == Date(tok.year, tok.month, tok.day)
                      days == ToOrdinal(d) - ToOrdinal(now)
                  IN IF days <= UrgentDays
                     THEN Risk("High", Some(d), Some(days))
                     ELSE Risk("Medium", Some(d), Some(days))
             ELSE Risk("Unknown", None, None)
        ELSE Risk("Unknown", None, None)

\* The badge shown in the Risk column.
risk_badge(r) ==
    IF r.level = "Low" THEN "All covered"
    ELSE IF r.level = "High" THEN "Next shortage <= 3 days"
    ELSE IF r.level = "Medium"
         THEN (IF r.days # None THEN "Shortage in days" ELSE "Shortage upcoming")
    ELSE "Unknown"

IdleRisk ==
    /\ text = NonText
    /\ today = Date(2024, 2, 27)
    /\ risk = NotRun

NoFrame == [columns |-> {}, rows |-> <<>>]

\* A table that has not been computed yet, and a computed one.
NoTable == [run |-> FALSE, rows |-> <<>>]
Table(rows) == [run |-> TRUE, rows |-> rows]

\* The metrics before lines 217-219 have run.
NoMetrics == [run |-> FALSE, total_orders |-> 0, total_value |-> 0,
              machine_count |-> 0]

IdleFrame ==
    /\ sheet = NoFrame
    /\ df = NoFrame
    /\ metrics = NoMetrics
    /\ util_df = NoTable

NoSel == [start |-> None, end |-> None]

IdleView ==
    /\ deleted = {}
    /\ sel = NoSel
    /\ filtered = <<>>

IdlePO ==
    /\ po_df = NoFrame
    /\ po_sel = NoSel
    /\ po_filtered = <<>>
    /\ po_display = <<>>

\* The source when nothing is read from it.
NoSource == [ok |-> FALSE, frame |-> NoFrame]

IdleRun ==
    /\ po_source = NoSource
    /\ pc = "idle"
    /\ raised = None
    /\ reported = {}
    /\ po_bound = FALSE

IdleCache ==
    /\ cache = None
    /\ clock = 0
    /\ source = 0
    /\ outcome = NotRun

IdleCoerce ==
    /\ input = NotRun
    /\ coerced = NotRun

IdleExport == csv = None

IdleRest == IdleRun /\ IdleCache /\ IdleCoerce /\ IdleExport

RECURSIVE SeqsUpTo(_, _)
\* All sequences over S of length 0..n.
SeqsUpTo(S, n) ==
    IF n = 0 THEN {<<>>}
    ELSE LET shorter == SeqsUpTo(S, n - 1)
         IN shorter \cup {Append(q, x) : q \in {p \in shorter : Len(p) = n - 1}, x \in S}


(***************************************************************************)
(* Column reconciliation (streamlit_app.py, lines 133-166).  A column name *)
(* is the sequence of its characters.                                      *)
(***************************************************************************)
RECURSIVE lstrip(_)
lstrip(h) == IF h # <<>> /\ Head(h) = " " THEN lstrip(Tail(h)) ELSE h

RECURSIVE rstrip(_)
rstrip(h) ==
    IF h # <<>> /\ h[Len(h)] = " " THEN rstrip(SubSeq(h, 1, Len(h) - 1)) ELSE h

\* str.strip()
strip(h) == rstrip(lstrip(h))

\* str.replace(old, new) for single characters.
replace(h, old, new) == [i \in 1..Len(h) |-> IF h[i] = old THEN new ELSE h[i]]

RECURSIVE collapse_underscores(_)
\* str.replace(r"__+", "_", regex=True)
collapse_underscores(h) ==
    IF Len(h) < 2 THEN h
    ELSE IF h[1] = "_" /\ h[2] = "_" THEN collapse_underscores(Tail(h))
    ELSE <<h[1]>> \o collapse_underscores(Tail(h))

normalise_name(h) ==
    collapse_underscores(replace(replace(strip(h), " ", "_"), "-", "_"))

normalise_columns(cols) == [i \in 1..Len(cols) |-> normalise_name(cols[i])]

Range(q) == {q[i] : i \in 1..Len(q)}

pick_col_by_column_order(cols, options) ==
    IF \E i \in 1..Len(cols) : cols[i] \in Range(options)
    THEN Some(cols[CHOOSE i \in 1..Len(cols) :
                      /\ cols[i] \in Range(options)
                      /\ \A j \in 1..(i - 1) : cols[j] \notin Range(options)])
    ELSE None

\* The last option that is a column name.
pick_col_last_option(cols, options) ==
    IF \E k \in 1..Len(options) : options[k] \in Range(cols)
    THEN Some(options[CHOOSE k \in 1..Len(options) :
                         /\ options[k] \in Range(cols)
                         /\ \A j \in (k + 1)..Len(options) : options[j] \notin Range(cols)])
    ELSE None

\* The first option that is a column name, None when no option is.
pick_col(cols, options) ==
    IF \E k \in 1..Len(options) : options[k] \in Range(cols)
    THEN Some(options[CHOOSE k \in 1..Len(options) :
                         /\ options[k] \in Range(cols)
                         /\ \A j \in 1..(k - 1) : options[j] \notin Range(cols)])
    ELSE None

Fields ==
    <<"Machine", "Customer", "ROW", "Feeds", "Quantity", "Finish",
      "Next_Uncovered_Order", "Order_Value">>

\* The options of each pick_col call, in the order of the call's list.
ColumnOptions ==
    [Machine |-> <<<<"M", "a", "c", "h", "i", "n", "e">>, <<"m", "a", "c", "h", "i", "n", "e">>>>,
     Customer |-> <<<<"C", "u", "s", "t", "o", "m", "e", "r">>, <<"C", "u", "s", "t", "o", "m", "e", "r", "_", "N", "a", "m", "e">>, <<"C", "u", "s", "t", "_", "n", "a", "m", "e">>>>,
     ROW |-> <<<<"R", "O", "W">>, <<"R", "o", "w">>, <<"S", "p", "e", "c", "_", "N", "u", "m", "b", "e", "r">>>>,
     Feeds |-> <<<<"F", "e", "e", "d", "s">>, <<"F", "e", "e", "d">>, <<"f", "e", "e", "d", "s">>>>,
     Quantity |-> <<<<"Q", "u", "a", "n", "t", "i", "t", "y">>, <<"Q", "t", "y">>, <<"q", "u", "a", "n", "t", "i", "t", "y">>>>,
     Finish |-> <<<<"F", "i", "n", "i", "s", "h">>, <<"E", "s", "t", "i", "m", "a", "t", "e", "d", "_", "F", "i", "n", "i", "s", "h">>, <<"f", "i", "n", "i", "s", "h">>>>,
     Next_Uncovered_Order |->
        <<<<"N", "e", "x", "t", "_", "U", "n", "c", "o", "v", "e", "r", "e", "d", "_", "O", "r", "d", "e", "r">>, <<"N", "e", "x", "t", "_", "S", "h", "o", "r", "t", "a", "g", "e">>, <<"N", "e", "x", "t", "U", "n", "c", "o", "v", "e", "r", "e", "d", "O", "r", "d", "e", "r">>>>,
     Order_Value |->
        <<<<"O", "r", "d", "e", "r", "_", "V", "a", "l", "u", "e">>, <<"O", "r", "d", "e", "r", "V", "a", "l", "u", "e">>, <<"O", "r", "d", "e", "r", "_", "v", "a", "l">>, <<"V", "a", "l", "u", "e">>, <<"v", "a", "l", "u", "e">>>>]

\* The values of rename_map: the canonical name of each field.
CanonicalName ==
    [Machine |-> <<"M", "a", "c", "h", "i", "n", "e">>,
     Customer |-> <<"C", "u", "s", "t", "o", "m", "e", "r">>,
     ROW |-> <<"R", "O", "W">>,
     Feeds |-> <<"F", "e", "e", "d", "s">>,
     Quantity |-> <<"Q", "u", "a", "n", "t", "i", "t", "y">>,
     Finish |-> <<"F", "i", "n", "i", "s", "h">>,
     Next_Uncovered_Order |-> <<"N", "e", "x", "t", "_", "U", "n", "c", "o", "v", "e", "r", "e", "d", "_", "O", "r", "d", "e", "r">>,
     Order_Value |-> <<"O", "r", "d", "e", "r", "_", "V", "a", "l", "u", "e">>]

\* col_machine, col_customer, ..., col_value
pick_all(cols) ==
    [f \in Range(Fields) |-> pick_col(cols, ColumnOptions[f])]

\* df.rename(columns=rename_map), rename_map without its None keys.
rename(cols, picks) ==
    [i \in 1..Len(cols) |->
        IF \E f \in Range(Fields) : picks[f] = Some(cols[i])
        THEN CanonicalName[CHOOSE f \in Range(Fields) : picks[f] = Some(cols[i])]
        ELSE cols[i]]

MaxHeaders == 2

\* Header cells a sheet may carry, among them "Customer Name " as the
\* production sheet spells it.
RawHeaders ==
    { <<"M", "a", "c", "h", "i", "n", "e">>, <<"m", "a", "c", "h", "i", "n", "e">>, <<"M", "A", "C", "H", "I", "N", "E">>, <<" ", "M", "a", "c", "h", "i", "n", "e", " ">>,
      <<"C", "u", "s", "t", "o", "m", "e", "r", " ", "N", "a", "m", "e", " ">>, <<"c", "u", "s", "t", "o", "m", "e", "r", " ", "n", "a", "m", "e">>, <<"C", "u", "s", "t", " ", "-", " ", "n", "a", "m", "e">>,
      <<"F", "e", "e", "d">>, <<"f", "e", "e", "d", "s">>, <<"F", "e", "e", "d", "s">>, <<"O", "r", "d", "e", "r", "-", "V", "a", "l", "u", "e">>, <<"N", "o", "t", "e", "s">> }

\* Header rows: gspread's get_all_records gives each header once.
HeaderRows ==
    {q \in SeqsUpTo(RawHeaders, MaxHeaders) :
        \A i, j \in 1..Len(q) : i # j => q[i] # q[j]}

IdleCols ==
    /\ headers = <<>>
    /\ columns = <<>>
    /\ picked = NotRun
    /\ colpc = "idle"

InitCols ==
    /\ IdleRest
    /\ headers \in HeaderRows
    /\ columns = headers
    /\ picked = NotRun
    /\ colpc = "loaded"
    /\ IdleRisk
    /\ IdleFrame
    /\ IdleView
    /\ IdlePO

\* Lines 133-138.
NormaliseColumns ==
    /\ colpc = "loaded"
    /\ columns' = normalise_columns(columns)
    /\ colpc' = "normalised"
    /\ UNCHANGED <<headers, picked, riskVars, frameVars, viewVars, poVars, restVars>>

\* Lines 146-166.
RenameColumns ==
    /\ colpc = "normalised"
    /\ picked' = pick_all(columns)
    /\ columns' = rename(columns, pick_all(columns))
    /\ colpc' = "renamed"
    /\ UNCHANGED <<headers, riskVars, frameVars, viewVars, poVars, restVars>>

NextCols == NormaliseColumns \/ RenameColumns

SpecCols == InitCols /\ [][NextCols]_vars

(***************************************************************************)
(* The claims of the column reconciliation.                                *)
(***************************************************************************)
UpperLetters == <<"A", "B", "C", "D", "E", "F", "G", "H", "I", "J", "K", "L", "M", "N", "O", "P", "Q", "R", "S", "T", "U", "V", "W", "X", "Y", "Z">>
LowerLetters == <<"a", "b", "c", "d", "e", "f", "g", "h", "i", "j", "k", "l", "m", "n", "o", "p", "q", "r", "s", "t", "u", "v", "w", "x", "y", "z">>

LowerChar(c) ==
    IF \E i \in 1..26 : UpperLetters[i] = c
    THEN LowerLetters[CHOOSE i \in 1..26 : UpperLetters[i] = c]
    ELSE c

LowerCased(h) == [i \in 1..Len(h) |-> LowerChar(h[i])]

RECURSIVE OneSeparator(_)
\* Every run of spaces, hyphens and underscores becomes one underscore.
OneSeparator(h) ==
    IF h = <<>> THEN <<>>
    ELSE IF Head(h) \in {" ", "-", "_"}
         THEN (IF Len(h) >= 2 /\ h[2] \in {" ", "-", "_"}
               THEN OneSeparator(Tail(h))
               ELSE <<"_">> \o OneSeparator(Tail(h)))
    ELSE <<Head(h)>> \o OneSeparator(Tail(h))

\* Trimmed, lower-cased, spaces and hyphens collapsed to one separator.
NormalizedText(h) == OneSeparator(LowerCased(strip(h)))

ContainsText(h, part) ==
    \E k \in 0..(Len(h) - Len(part)) : SubSeq(h, k + 1, k + Len(part)) = part

\* The synonym substrings of a field: its option names, lower-cased.
Synonyms(f) == {LowerCased(o) : o \in Range(ColumnOptions[f])}

\* The headers whose normalized text contains a synonym of the field.
ContainingHeaders(f) ==
    {i \in 1..Len(headers) :
        \E syn \in Synonyms(f) : ContainsText(NormalizedText(headers[i]), syn)}

Least(S) == CHOOSE x \in S : \A y \in S : x <= y

FieldIndex(f) == CHOOSE k \in 1..Len(Fields) : Fields[k] = f

\* C6: each canonical field is assigned the first raw header, in header
\* order, whose normalized text (trimmed, lower-cased, separators collapsed)
\* contains one of the field's synonyms, unless an earlier field of the
\* schema claims that header.
C6_FirstContainingHeader ==
    colpc = "renamed" =>
        \A f \in Range(Fields) :
            (/\ ContainingHeaders(f) # {}
             /\ \A g \in Range(Fields) :
                    (FieldIndex(g) < FieldIndex(f) /\ ContainingHeaders(g) # {})
                        => Least(ContainingHeaders(g)) # Least(ContainingHeaders(f)))
                => columns[Least(ContainingHeaders(f))] = CanonicalName[f]

\* The options of a field that are, letter for letter, the name of a header
\* after trimming, replacing each space and hyphen by an underscore and
\* collapsing runs of underscores.
PresentOptions(f) ==
    {k \in 1..Len(ColumnOptions[f]) :
        \E i \in 1..Len(headers) : normalise_name(headers[i]) = ColumnOptions[f][k]}

\* C6 amended: each canonical field is assigned the first name of its option
\* list, in the order of that list, that equals a header exactly and
\* case-sensitively after trimming, replacing spaces and hyphens by
\* underscores and collapsing underscore runs; the headers of that name are
\* renamed to the field and every other header keeps its normalised name.
C6_FirstPresentOption ==
    colpc = "renamed" =>
        /\ \A f \in Range(Fields) :
              picked[f] = IF PresentOptions(f) = {} THEN None
                          ELSE Some(ColumnOptions[f][Least(PresentOptions(f))])
        /\ \A i \in 1..Len(headers) :
              LET name == normalise_name(headers[i])
                  owners == {f \in Range(Fields) :
                                /\ PresentOptions(f) # {}
                                /\ ColumnOptions[f][Least(PresentOptions(f))] = name}
              IN /\ \A f \in owners : columns[i] = CanonicalName[f]
                 /\ owners = {} => columns[i] = name

\* "Customer Name " is renamed to Customer while "MACHINE" keeps its name.
C6_Witness ==
    /\ colpc = "renamed"
    /\ headers = <<<<"C", "u", "s", "t", "o", "m", "e", "r", " ", "N", "a", "m", "e", " ">>, <<"M", "A", "C", "H", "I", "N", "E">>>>
    /\ columns = <<<<"C", "u", "s", "t", "o", "m", "e", "r">>, <<"M", "A", "C", "H", "I", "N", "E">>>>
    /\ picked["Machine"] = None

CanonicalNames == {CanonicalName[f] : f \in Range(Fields)}

AllCanonical(cols) == \A i \in 1..Len(cols) : cols[i] \in CanonicalNames

\* Normalization and reconciliation, once more, of a column list.
ReconciledAgain(cols) ==
    rename(normalise_columns(cols), pick_all(normalise_columns(cols)))

\* C16: when every header is a canonical field name, each header is picked
\* for its own field and keeps its name, and no field gets another column;
\* and normalizing and reconciling the reconciled columns once more changes
\* no column name.
C16_ReconciliationIdempotent ==
    colpc = "renamed" =>
        /\ AllCanonical(headers) =>
              /\ columns = headers
              /\ \A f \in Range(Fields) :
                    picked[f] = IF CanonicalName[f] \in Range(headers)
                                THEN Some(CanonicalName[f]) ELSE None
        /\ ReconciledAgain(columns) = columns
        /\ \A f \in Range(Fields) :
              pick_all(normalise_columns(columns))[f] \in {None, Some(CanonicalName[f])}

\* The header list Feeds, Machine is reconciled to itself.
C16_Witness ==
    /\ colpc = "renamed"
    /\ headers = <<<<"F", "e", "e", "d", "s">>, <<"M", "a", "c", "h", "i", "n", "e">>>>
    /\ columns = headers
    /\ picked["Feeds"] = Some(<<"F", "e", "e", "d", "s">>)
    /\ picked["Machine"] = Some(<<"M", "a", "c", "h", "i", "n", "e">>)
    /\ picked["Customer"] = None


(***************************************************************************)
(* Overall machine utilisation (streamlit_app.py, lines 233-270).  A frame *)
(* is [columns, rows]: the set of its column names and the sequence of its *)
(* rows, each a record over the columns.  In the frames of SpecUtil the    *)
(* Feeds are whole numbers and Finish is a date or None (NaT).             *)
(***************************************************************************)
\* machine_capacity, in the order of the dict.
machine_capacity ==
    << <<"BO1", 24000>>, <<"KO1", 50000>>, <<"KO3", 15000>>,
       <<"JC1", 48000>>, <<"JC", 48000>>, <<"TCY", 9000>> >>

RECURSIVE SumOver(_, _)
\* The sum of f[x] over the finite set S.
SumOver(f, S) ==
    IF S = {} THEN 0
    ELSE LET x == CHOOSE y \in S : TRUE IN f[x] + SumOver(f, S \ {x})

\* round(): num / den rounded to the nearest whole number, a tie to the even
\* one (den > 0).
RoundHalfEven(num, den) ==
    LET q == num \div den
        r == num % den
    IN IF 2 * r < den THEN q
       ELSE IF 2 * r > den THEN q + 1
       ELSE IF q % 2 = 0 THEN q ELSE q + 1

\* df.dropna(subset=["Finish"]): the indexes of the rows that carry a date.
day_df(frame) == {i \in 1..Len(frame.rows) : frame.rows[i].Finish # None}

\* day_df.groupby(["Machine", "Finish_Date"], as_index=False)["Feeds"].sum()
group(frame) ==
    LET dated == day_df(frame)
        keys == {<<frame.rows[i].Machine, frame.rows[i].Finish[1]>> : i \in dated}
    IN {[Machine |-> k[1], Finish_Date |-> k[2],
         Feeds |-> SumOver([i \in dated |-> frame.rows[i].Feeds],
                           {i \in dated :
                               /\ frame.rows[i].Machine = k[1]
                               /\ frame.rows[i].Finish[1] = k[2]})] : k \in keys}

m_slice_by_code(grp, m) == {g \in grp : g.Machine = m}

\* m_slice and label of one pass of the loop over machine_capacity.
m_slice(grp, m) ==
    IF m = "JC1" THEN {g \in grp : g.Machine \in {"JC1", "JC"}}
    ELSE {g \in grp : g.Machine = m}

\* The row appended for a slice that is not empty.  Utilisation_x10 is the
\* Utilisation_% column in tenths of a percent.
util_row(label, slice, cap) ==
    LET total == SumOver([g \in slice |-> g.Feeds], slice)
        n == Cardinality(slice)
    IN [Machine |-> label,
        Avg_Feeds_per_Day |-> RoundHalfEven(total, n),
        Capacity_Feeds_per_Day |-> cap,
        Utilisation_x10 |->
            IF cap > 0 THEN RoundHalfEven(total * 1000, n * cap) ELSE 0]

RECURSIVE util_rows(_, _)
\* rows after the passes k, k+1, ... of the loop.
util_rows(grp, k) ==
    IF k > Len(machine_capacity) THEN <<>>
    ELSE LET m == machine_capacity[k][1]
             cap == machine_capacity[k][2]
         IN IF m = "JC" THEN util_rows(grp, k + 1)
            ELSE IF m_slice(grp, m) # {}
                 THEN <<util_row(m, m_slice(grp, m), cap)>> \o util_rows(grp, k + 1)
                 ELSE util_rows(grp, k + 1)

\* A row for every machine code of the frame, with capacity 0 for a code
\* that machine_capacity does not hold.
utilisation_by_frame_machine(frame) ==
    IF {"Machine", "Feeds", "Finish"} \subseteq frame.columns
    THEN util_rows(group(frame), 1)
         \o LET grp == group(frame)
                unlisted == {g.Machine : g \in grp}
                            \ {machine_capacity[k][1] : k \in 1..Len(machine_capacity)}
            IN IF unlisted = {} THEN <<>>
               ELSE LET m == CHOOSE x \in unlisted : TRUE
                    IN <<util_row(m, m_slice(grp, m), 0)>>
    ELSE <<>>

\* util_df: empty unless the frame has Machine, Feeds and Finish.
utilisation(frame) ==
    IF {"Machine", "Feeds", "Finish"} \subseteq frame.columns
    THEN util_rows(group(frame), 1)
    ELSE <<>>

MaxRows == 3

Machines == {"BO1", "JC1", "JC", "ZZ9"}
FinishDates == {Date(2024, 1, 1), Date(2024, 1, 2)}
FeedValues == {5, 6000}

UtilRecords ==
    [Machine : Machines, Finish : {None} \cup {Some(d) : d \in FinishDates},
     Feeds : FeedValues]

InitUtil ==
    /\ IdleRest
    /\ sheet = NoFrame
    /\ metrics = NoMetrics
    /\ \E rows \in SeqsUpTo(UtilRecords, MaxRows) :
          df = [columns |-> {"Machine", "Feeds", "Finish"}, rows |-> rows]
    /\ util_df = NoTable
    /\ IdleRisk
    /\ IdleCols
    /\ IdleView
    /\ IdlePO

\* Lines 242-270.
ComputeUtilisation ==
    /\ ~util_df.run
    /\ util_df' = Table(utilisation(df))
    /\ UNCHANGED <<sheet, df, metrics, riskVars, colVars, viewVars, poVars, restVars>>

NextUtil == ComputeUtilisation

SpecUtil == InitUtil /\ [][NextUtil]_vars


(***************************************************************************)
(* The claims of the utilisation aggregation.                              *)
(***************************************************************************)
\* The alias table: the code JC stands for the machine JC1.
Canonical(m) == IF m = "JC" THEN "JC1" ELSE m

\* The capacity table without its alias entry.
CapacityOf(m) ==
    LET S == {k \in 1..Len(machine_capacity) : machine_capacity[k][1] = m}
    IN IF S = {} \/ m = "JC" THEN None ELSE Some(machine_capacity[CHOOSE k \in S : TRUE][2])

\* The records of a machine that carry a known date.
DatedRecords(m) ==
    {i \in 1..Len(df.rows) :
        /\ df.rows[i].Finish # None
        /\ Canonical(df.rows[i].Machine) = m}

DatesOf(m) == {df.rows[i].Finish[1] : i \in DatedRecords(m)}

\* The sum of the Feeds of the machine's records on the date.
DayTotal(m, d) ==
    SumOver([i \in DatedRecords(m) |-> df.rows[i].Feeds],
            {i \in DatedRecords(m) : df.rows[i].Finish[1] = d})

\* The sum of the machine's day totals over its distinct dates.
SumOfDayTotals(m) == SumOver([d \in DatesOf(m) |-> DayTotal(m, d)], DatesOf(m))

MachinesWithDatedRecords ==
    {Canonical(df.rows[i].Machine) : i \in day_df(df)}

RowsOf(m) == {k \in 1..Len(util_df.rows) : util_df.rows[k].Machine = m}

\* C3: the average a row reports is the arithmetic mean, over the distinct
\* dates of the machine's dated records, of the day's sum of Feeds (read as
\* the whole number the table shows), and the utilisation is that mean over
\* the capacity times 100, rounded to one decimal.
C3_MeanOfDayTotals ==
    util_df.run =>
        \A k \in 1..Len(util_df.rows) :
            LET r == util_df.rows[k]
                m == r.Machine
                n == Cardinality(DatesOf(m))
            IN /\ r.Avg_Feeds_per_Day = RoundHalfEven(SumOfDayTotals(m), n)
               /\ r.Utilisation_x10 =
                      RoundHalfEven(SumOfDayTotals(m) * 1000,
                                    n * r.Capacity_Feeds_per_Day)

\* C4: exactly one row for every alias-resolved machine with a dated record;
\* the row of a machine without a capacity entry carries no capacity.
C4_RowForEveryMachine ==
    util_df.run =>
        \A m \in MachinesWithDatedRecords :
            /\ Cardinality(RowsOf(m)) = 1
            /\ CapacityOf(m) = None
                  => \A k \in RowsOf(m) : util_df.rows[k].Capacity_Feeds_per_Day \notin Int

\* C4 amended: exactly one row for every machine of the capacity table (JC
\* counted as JC1) that has a dated record, no row for any other machine
\* code, and every row carries the positive capacity of the table.
C4_RowForEveryTableMachine ==
    util_df.run =>
        /\ \A m \in MachinesWithDatedRecords :
              Cardinality(RowsOf(m)) = IF CapacityOf(m) = None THEN 0 ELSE 1
        /\ \A k \in 1..Len(util_df.rows) :
              /\ util_df.rows[k].Machine \in MachinesWithDatedRecords
              /\ Some(util_df.rows[k].Capacity_Feeds_per_Day)
                    = CapacityOf(util_df.rows[k].Machine)
              /\ util_df.rows[k].Capacity_Feeds_per_Day > 0

\* A machine without capacity entry is left out beside one that has a row.
C4_Witness ==
    /\ util_df.run
    /\ "ZZ9" \in MachinesWithDatedRecords
    /\ "BO1" \in MachinesWithDatedRecords
    /\ Len(util_df.rows) = 1
    /\ util_df.rows[1].Machine = "BO1"

\* No date carries records under both codes JC and JC1.
CodesApartByDate ==
    \A i, j \in DatedRecords("JC1") :
        df.rows[i].Finish = df.rows[j].Finish => df.rows[i].Machine = df.rows[j].Machine

\* C5: no row is labelled JC; the records coded JC or JC1 make one row
\* labelled JC1, measured against the capacity of JC1 (48000), whose average
\* covers the JC records.
C5_AliasResolved ==
    util_df.run =>
        /\ RowsOf("JC") = {}
        /\ Cardinality(RowsOf("JC1")) = IF DatedRecords("JC1") = {} THEN 0 ELSE 1
        /\ \A k \in RowsOf("JC1") :
              LET r == util_df.rows[k]
                  n == Cardinality(DatesOf("JC1"))
              IN /\ r.Capacity_Feeds_per_Day = 48000
                 /\ CodesApartByDate =>
                       /\ r.Avg_Feeds_per_Day = RoundHalfEven(SumOfDayTotals("JC1"), n)
                       /\ r.Utilisation_x10 =
                             RoundHalfEven(SumOfDayTotals("JC1") * 1000, n * 48000)

\* Records coded JC only: they make a row labelled JC1.
C5_Witness ==
    /\ util_df.run
    /\ \E i \in day_df(df) : df.rows[i].Machine = "JC"
    /\ \A i \in 1..Len(df.rows) : df.rows[i].Machine # "JC1"
    /\ RowsOf("JC1") # {}

\* The values the code averages for the JC1 row.
AveragedForJC1 == m_slice(group(df), "JC1")

\* C18: in the merged JC1 row every distinct date of the JC and JC1 records
\* gives one averaged value, the sum of the Feeds of the records of both
\* codes on that date; so there are as many averaged values as distinct
\* dates, and the average is their mean.
C18_OneTotalPerDate ==
    (util_df.run /\ RowsOf("JC1") # {}) =>
        /\ Cardinality(AveragedForJC1) = Cardinality(DatesOf("JC1"))
        /\ \A d \in DatesOf("JC1") :
              \E g \in AveragedForJC1 :
                  g.Finish_Date = d /\ g.Feeds = DayTotal("JC1", d)
        /\ \A k \in RowsOf("JC1") :
              util_df.rows[k].Avg_Feeds_per_Day =
                  RoundHalfEven(SumOfDayTotals("JC1"), Cardinality(DatesOf("JC1")))


(***************************************************************************)
(* The inputs of the classifier.                                           *)
(***************************************************************************)
MaxTokens == 2

Todays == {Date(2024, 2, 27), Date(2024, 12, 30)}

\* day, month, year: real dates on both sides of the threshold of either
\* today, a far past and a far future one, and two that are no dates.
DayMonthYear ==
    { <<27, 2, 2024>>, <<1, 3, 2024>>, <<2, 3, 2024>>, <<1, 1, 2020>>,
      <<2, 1, 2025>>, <<10, 12, 2099>>, <<31, 2, 2024>>, <<1, 13, 2024>> }

\* DD/MM/YYYY, D/M/YY, DD-MM-YYYY and D/M/YYYY.
Shapes == { <<2, 2, 4, "/">>, <<1, 1, 2, "/">>, <<2, 2, 4, "-">>, <<1, 1, 4, "/">> }

DateToks ==
    { DateTok(x[1], x[2], x[3], s[1], s[2], s[3], s[4]) :
        x \in DayMonthYear, s \in Shapes }

\* A number can be written with dd digits: 1 digit holds 0..9 only, and a
\* number below 10 fills 2 digits with a leading zero.
WellWritten(tok) ==
    /\ (tok.dayDigits = 1 => tok.day <= 9)
    /\ (tok.monthDigits = 1 => tok.month <= 9)

Tokens ==
    {SpTok, WordTok, CoveredTok("lower"), CoveredTok("Title")}
        \cup {tok \in DateToks : WellWritten(tok)}

Texts == {NonText} \cup {Str(q) : q \in SeqsUpTo(Tokens, MaxTokens)}

InitRisk ==
    /\ IdleRest
    /\ text \in Texts
    /\ today \in Todays
    /\ risk = NotRun
    /\ IdleCols
    /\ IdleFrame
    /\ IdleView
    /\ IdlePO

\* filtered["Next_Uncovered_Order"].apply(parse_next_shortage) on one cell.
Classify ==
    /\ risk = NotRun
    /\ risk' = parse_next_shortage(text, today)
    /\ UNCHANGED <<text, today, colVars, frameVars, viewVars, poVars, restVars>>

NextRisk == Classify

SpecRisk == InitRisk /\ [][NextRisk]_vars

(***************************************************************************)
(* The risk classifier's claims.  The categories of the claims are the     *)
(* levels of the code: AllCovered is "Low", Urgent is "High", Future is    *)
(* "Medium".                                                               *)
(***************************************************************************)
Category(level) ==
    IF level = "Low" THEN "AllCovered"
    ELSE IF level = "High" THEN "Urgent"
    ELSE IF level = "Medium" THEN "Future"
    ELSE "Unknown"

Classified == risk.level # "not run"

IsBlankInput == ~text.str \/ \A i \in 1..Len(text.toks) : text.toks[i].k = "sp"

SaysAllCovered == \E i \in 1..Len(text.toks) : text.toks[i].k = "covered"

\* The date tokens of the text that name a day of the calendar.
ValidDateIndexes ==
    {i \in 1..Len(text.toks) :
        /\ text.toks[i].k = "date"
        /\ IsCalendarDate(text.toks[i].year, text.toks[i].month, text.toks[i].day)}

TokDate(i) == Date(text.toks[i].year, text.toks[i].month, text.toks[i].day)

\* The substrings written DD/MM/YYYY.
DDMMYYYYIndexes ==
    {i \in 1..Len(text.toks) :
        /\ text.toks[i].k = "date"
        /\ <<text.toks[i].dayDigits, text.toks[i].monthDigits,
             text.toks[i].yearDigits, text.toks[i].sep>> = <<2, 2, 4, "/">>}

\* C1: the classifier returns Unknown if and only if the input is non-text
\* or blank, and classifies every other text without "all covered" and
\* without an extractable valid date as Future with no date and no days.
C1_UnknownIffBlank ==
    Classified =>
        /\ (Category(risk.level) = "Unknown") <=> IsBlankInput
        /\ (~IsBlankInput /\ ~SaysAllCovered /\ ValidDateIndexes = {})
              => /\ Category(risk.level) = "Future"
                 /\ risk.date = None
                 /\ risk.days = None

\* What C2 and its amendment say of the date d the classifier is to report.
ReportsDate(d) ==
    LET days == ToOrdinal(d) - ToOrdinal(today) IN
    /\ risk.date = Some(d)
    /\ risk.days = Some(days)
    /\ (Category(risk.level) = "Urgent") <=> (days <= 3)
    /\ (Category(risk.level) = "Future") <=> (days > 3)

\* C2 as stated: a text that is not blank, does not say "all covered" and
\* contains a valid embedded date is classified by an embedded valid date d:
\* shortage_date = d, days_until = d - today, Urgent iff days_until <= 3,
\* Future iff days_until > 3.
C2_AnyEmbeddedDate ==
    (Classified /\ ~IsBlankInput /\ ~SaysAllCovered /\ ValidDateIndexes # {})
        => \E i \in ValidDateIndexes : ReportsDate(TokDate(i))

\* C2 amended: when the first substring written DD/MM/YYYY (two digits, "/",
\* two digits, "/", four digits) of such a text is a real calendar date d,
\* the classifier returns shortage_date = d and days_until = d - today, with
\* Urgent exactly when days_until <= 3 and Future exactly when it is > 3.
C2_FirstDDMMYYYYDate ==
    (Classified /\ ~IsBlankInput /\ ~SaysAllCovered /\ DDMMYYYYIndexes # {})
        => LET first == CHOOSE i \in DDMMYYYYIndexes :
                            \A j \in DDMMYYYYIndexes : i <= j
           IN first \in ValidDateIndexes => ReportsDate(TokDate(first))

\* A shortage exactly three days ahead, across the end of February of a
\* leap year, is classified Urgent.
C2_Witness ==
    /\ Classified
    /\ today = Date(2024, 2, 27)
    /\ risk = Risk("High", Some(Date(2024, 3, 1)), Some(3))

\* The written dates of the text, however they are written.
WrittenDateIndexes == {i \in 1..Len(text.toks) : text.toks[i].k = "date"}

FirstOf(S) == CHOOSE i \in S : \A j \in S : i <= j

\* C13 as stated: the first written date of a text (1 or 2 digits of day and
\* of month, 2 or 4 of year, "/" or "-" between them), when it is a day of
\* the calendar read day first, is the shortage date, and the category is
\* one that bears a date.
C13_AnyWrittenDate ==
    (/\ Classified /\ ~IsBlankInput /\ ~SaysAllCovered
     /\ WrittenDateIndexes # {}
     /\ FirstOf(WrittenDateIndexes) \in ValidDateIndexes)
        => /\ risk.date = Some(TokDate(FirstOf(WrittenDateIndexes)))
           /\ Category(risk.level) \in {"Urgent", "Future"}

\* C13 amended: a shortage date is extracted exactly when the text has a
\* substring written DD/MM/YYYY and the first such substring is a day of
\* the calendar, read day first; that day is the shortage date.  A text
\* whose dates are all written otherwise is classified Unknown with no date.
C13_OnlyDDMMYYYY ==
    (Classified /\ ~IsBlankInput /\ ~SaysAllCovered) =>
        IF DDMMYYYYIndexes # {} /\ FirstOf(DDMMYYYYIndexes) \in ValidDateIndexes
        THEN /\ risk.date = Some(TokDate(FirstOf(DDMMYYYYIndexes)))
             /\ Category(risk.level) \in {"Urgent", "Future"}
        ELSE /\ risk.date = None
             /\ risk.days = None
             /\ Category(risk.level) = "Unknown"

\* "Shortage 10-12-2099": a real date, written with "-", is not extracted.
C13_Witness ==
    /\ Classified
    /\ text = Str(<<WordTok, DateTok(10, 12, 2099, 2, 2, 4, "-")>>)
    /\ risk = Risk("Unknown", None, None)


(***************************************************************************)
(* The loader: the coercion of the cells (lines 168-183) and the top       *)
(* metrics (lines 217-219).  A cell of the sheet is a whole number or a    *)
(* text, as ws.get_all_records() hands it over; an empty cell is the empty *)
(* text and never a missing value.                                         *)
(***************************************************************************)
Num(n) == [kind |-> "int", val |-> n, chars |-> <<>>]
Txt(chars) == [kind |-> "str", val |-> 0, chars |-> chars]

Digits == <<"0", "1", "2", "3", "4", "5", "6", "7", "8", "9">>
IsDigit(c) == \E i \in 1..Len(Digits) : Digits[i] = c
DigitValue(c) == (CHOOSE i \in 1..Len(Digits) : Digits[i] = c) - 1

RECURSIVE str_of_nat(_)
str_of_nat(n) ==
    IF n < 10 THEN <<Digits[n + 1]>>
    ELSE str_of_nat(n \div 10) \o <<Digits[(n % 10) + 1]>>

\* .astype(str) of one cell.
astype_str(cell) ==
    IF cell.kind = "str" THEN cell.chars
    ELSE IF cell.val < 0 THEN <<"-">> \o str_of_nat(0 - cell.val)
    ELSE str_of_nat(cell.val)

\* A character class that lets no sign through.
IsDigitOrDot(c) == IsDigit(c) \/ c = "."

IsNumericChar(c) == IsDigit(c) \/ c = "." \/ c = "-"

RECURSIVE DigitsValue(_)
DigitsValue(q) ==
    IF q = <<>> THEN 0
    ELSE 10 * DigitsValue(SubSeq(q, 1, Len(q) - 1)) + DigitValue(q[Len(q)])

RECURSIVE rstrip_zeros(_)
rstrip_zeros(q) ==
    IF q # <<>> /\ q[Len(q)] = "0" THEN rstrip_zeros(SubSeq(q, 1, Len(q) - 1))
    ELSE q

\* A float64 as its decimal writing: sign, whole part, and the digits after
\* the point without trailing zeros.  Zero has the sign 1.
Decimal(sign, whole, frac) ==
    [sign |-> IF whole = 0 /\ frac = <<>> THEN 1 ELSE sign,
     whole |-> whole, frac |-> frac]

Zero == Decimal(1, 0, <<>>)

\* pd.to_numeric(..., errors="coerce") of a text of digits, "." and "-":
\* None (NaN) unless the text is [-]digits[.digits] with a digit in it.
to_numeric(q) ==
    LET neg == q # <<>> /\ q[1] = "-"
        body == IF neg THEN Tail(q) ELSE q
        dots == {i \in 1..Len(body) : body[i] = "."}
        dot == IF dots = {} THEN Len(body) + 1 ELSE CHOOSE i \in dots : TRUE
        whole == SubSeq(body, 1, dot - 1)
        frac == rstrip_zeros(SubSeq(body, dot + 1, Len(body)))
        sign == IF neg THEN 0 - 1 ELSE 1
    IN IF \/ Cardinality(dots) > 1
          \/ \E i \in 1..Len(body) : body[i] = "-"
          \/ Len(body) - Cardinality(dots) = 0
       THEN None
       ELSE Some(Decimal(sign, DigitsValue(whole), frac))

\* to_number(s) of line 168 followed by .fillna(0) of line 176, on one cell,
\* as a decimal.
coerce_number(cell) ==
    LET n == to_numeric(SelectSeq(astype_str(cell), IsNumericChar))
    IN IF n = None THEN Zero ELSE n[1]

\* The same value as a frame holds it: a whole value is an integer, any
\* other one keeps its decimals.
to_number(cell) ==
    LET v == coerce_number(cell)
    IN IF v.frac = <<>> THEN v.sign * v.whole ELSE v

\* pd.to_datetime(..., errors="coerce", dayfirst=True) on one cell that holds
\* nothing, a word or one written date: NaT unless the cell is a date of the
\* calendar, read day first.
to_datetime(cell) ==
    IF /\ cell.str
       /\ Len(cell.toks) = 1
       /\ cell.toks[1].k = "date"
       /\ IsCalendarDate(cell.toks[1].year, cell.toks[1].month, cell.toks[1].day)
    THEN Some(Date(cell.toks[1].year, cell.toks[1].month, cell.toks[1].day))
    ELSE None

\* A missing value in a text column; no cell of a sheet holds it.
NaN == "<NaN>"

\* Lines 174-180 on one row of a frame with the given columns.
coerce_row(cols, r) ==
    [f \in cols |->
        IF f \in {"Feeds", "Quantity", "Order_Value"} THEN to_number(r[f])
        ELSE IF f = "Finish" THEN to_datetime(r[f])
        ELSE r[f]]

\* df.dropna(subset=["Machine"], how="all")
IsPresent(r) == r.Machine # NaN

dropna_machine(frame) ==
    IF "Machine" \in frame.columns
    THEN [frame EXCEPT !.rows = SelectSeq(frame.rows, IsPresent)]
    ELSE frame

\* Lines 174-183.
coerce(frame) ==
    dropna_machine(
        [columns |-> frame.columns,
         rows |-> [i \in 1..Len(frame.rows) |->
                      coerce_row(frame.columns, frame.rows[i])]])

\* Lines 217-219.
top_metrics(frame) ==
    [run |-> TRUE,
     total_orders |-> Len(frame.rows),
     total_value |->
        IF "Order_Value" \in frame.columns
        THEN SumOver([i \in 1..Len(frame.rows) |-> frame.rows[i].Order_Value],
                     1..Len(frame.rows))
        ELSE 0,
     machine_count |->
        IF "Machine" \in frame.columns
        THEN Cardinality({frame.rows[i].Machine : i \in 1..Len(frame.rows)}
                         \ {NaN})
        ELSE 0]

MaxSheetRows == 2

MachineCells == {"BO1", "JC1", ""}
FeedsCells == {Num(6000), Txt(<<>>), Txt(<<"5", ",", "0", "0", "0">>)}
FinishCells ==
    {Str(<<>>), Str(<<DateTok(1, 1, 2024, 2, 2, 4, "/")>>),
     Str(<<DateTok(31, 2, 2024, 2, 2, 4, "/")>>)}

SheetRows == [Machine : MachineCells, Feeds : FeedsCells, Finish : FinishCells]

InitLoad ==
    /\ IdleRest
    /\ \E rows \in SeqsUpTo(SheetRows, MaxSheetRows) :
          sheet = [columns |-> {"Machine", "Feeds", "Finish"}, rows |-> rows]
    /\ df = NoFrame
    /\ metrics = NoMetrics
    /\ util_df = NoTable
    /\ IdleRisk
    /\ IdleCols
    /\ IdleView
    /\ IdlePO

\* Lines 174-183.
Coerce ==
    /\ df = NoFrame
    /\ df' = coerce(sheet)
    /\ UNCHANGED <<sheet, metrics, util_df, riskVars, colVars, viewVars, poVars, restVars>>

\* Lines 217-219.
TopMetrics ==
    /\ df # NoFrame
    /\ ~metrics.run
    /\ metrics' = top_metrics(df)
    /\ UNCHANGED <<sheet, df, util_df, riskVars, colVars, viewVars, poVars, restVars>>

NextLoad ==
    \/ Coerce
    \/ TopMetrics
    \/ (metrics.run /\ ComputeUtilisation)

SpecLoad == InitLoad /\ [][NextLoad]_vars

(***************************************************************************)
(* Claims about the loader.                                                *)
(***************************************************************************)
IsBlankMachine(m) == m = "" \/ m = NaN

\* The row of the sheet has something in a field other than Machine.
CarriesData(r) == r.Feeds # Txt(<<>>) \/ r.Finish # Str(<<>>)

\* The Machine of the nearest row at or before row k of the sheet that has
\* one, "" when there is none.
FilledMachine(k) ==
    LET named == {j \in 1..k : ~IsBlankMachine(sheet.rows[j].Machine)}
    IN IF named = {} THEN ""
       ELSE sheet.rows[CHOOSE j \in named : \A h \in named : h <= j].Machine

\* C7: after loading, no record with a Feeds or a Finish value has a blank
\* Machine, and a row of the sheet with data and a blank Machine cell is
\* loaded with the Machine of the nearest row above it that has one.
C7_MachineForwardFilled ==
    df # NoFrame =>
        /\ \A i \in 1..Len(df.rows) :
              (df.rows[i].Feeds # 0 \/ df.rows[i].Finish # None)
                  => ~IsBlankMachine(df.rows[i].Machine)
        /\ \A k \in 1..Len(sheet.rows) :
              (/\ IsBlankMachine(sheet.rows[k].Machine)
               /\ CarriesData(sheet.rows[k])
               /\ FilledMachine(k) # "")
                  => \E i \in 1..Len(df.rows) :
                        df.rows[i] =
                            coerce_row(sheet.columns,
                                [sheet.rows[k] EXCEPT !.Machine = FilledMachine(k)])


(***************************************************************************)
(* The production view of one browser session: the filters, the sort and   *)
(* the local deletions (lines 293-369 and 410-463).  Every step is one run *)
(* of the script, started by one widget.  filtered holds the index labels  *)
(* of the rows of the view, in the order of the view.                      *)
(***************************************************************************)
DateLE(a, b) == ToOrdinal(a) <= ToOrdinal(b)

Indexes(frame) == [i \in 1..Len(frame.rows) |-> i]

finish_dates(frame) ==
    IF "Finish" \in frame.columns
    THEN {frame.rows[i].Finish[1] :
            i \in {j \in 1..Len(frame.rows) : frame.rows[j].Finish # None}}
    ELSE {}

\* Lines 293-297.
min_date(frame) ==
    IF finish_dates(frame) # {}
    THEN CHOOSE d \in finish_dates(frame) : \A e \in finish_dates(frame) : DateLE(d, e)
    ELSE today

max_date(frame) ==
    IF finish_dates(frame) # {}
    THEN CHOOSE d \in finish_dates(frame) : \A e \in finish_dates(frame) : DateLE(e, d)
    ELSE today

\* Lines 318-323.
filtered_pre_machine(frame, start_date, end_date) ==
    LET InRange(i) ==
            /\ frame.rows[i].Finish # None
            /\ DateLE(start_date, frame.rows[i].Finish[1])
            /\ DateLE(frame.rows[i].Finish[1], end_date)
    IN IF finish_dates(frame) # {}
       THEN SelectSeq(Indexes(frame), InRange)
       ELSE Indexes(frame)

\* Lines 326-327 and 337-351: what the two select boxes offer.
machine_options(frame, pre) ==
    {"All Machines"} \cup
        (IF "Machine" \in frame.columns
         THEN {frame.rows[pre[k]].Machine : k \in 1..Len(pre)} \ {NaN}
         ELSE {})

customer_options(frame, pre) ==
    {"All Customers"} \cup
        (IF "Customer" \in frame.columns
         THEN {frame.rows[pre[k]].Customer : k \in 1..Len(pre)} \ {NaN}
         ELSE {})

\* Whether row a goes before row b in the order of the sort: by date, rows of
\* one date in the order they had.
finish_before(frame, ascending, a, b) ==
    LET da == ToOrdinal(frame.rows[a].Finish[1])
        db == ToOrdinal(frame.rows[b].Finish[1])
    IN \/ (ascending /\ da < db)
       \/ (~ascending /\ da > db)
       \/ (da = db /\ a < b)

RECURSIVE insert_by_finish(_, _, _, _)
insert_by_finish(frame, ascending, x, q) ==
    IF q = <<>> THEN <<x>>
    ELSE IF finish_before(frame, ascending, x, Head(q)) THEN <<x>> \o q
    ELSE <<Head(q)>> \o insert_by_finish(frame, ascending, x, Tail(q))

RECURSIVE sort_by_finish(_, _, _)
sort_by_finish(frame, ascending, q) ==
    IF q = <<>> THEN <<>>
    ELSE insert_by_finish(frame, ascending, Head(q),
                          sort_by_finish(frame, ascending, Tail(q)))

\* filtered.sort_values(by="Finish", ascending=...): the dated rows in the
\* order of the sort, the rows without a date last.
sort_values(frame, idx, ascending) ==
    LET HasDate(i) == frame.rows[i].Finish # None
        NoDate(i) == frame.rows[i].Finish = None
    IN sort_by_finish(frame, ascending, SelectSeq(idx, HasDate))
       \o SelectSeq(idx, NoDate)

preferred_cols ==
    <<"Machine", "Customer", "ROW", "Feeds", "Quantity", "Finish",
      "Next_Uncovered_Order", "Risk", "Order_Value">>

\* show_cols, as a set.
show_cols(cols) == {c \in Range(preferred_cols) : c \in cols}

KeyParts == <<"Machine", "Customer", "Finish", "Feeds", "Quantity", "Order_Value">>

\* build_key_col on one row of a frame with the given columns: the ROW, or
\* the parts that "|" joins.
build_key_col(cols, r) ==
    IF "ROW" \in cols THEN <<r.ROW>>
    ELSE [k \in 1..Len(KeyParts) |->
            IF KeyParts[k] \in cols THEN r[KeyParts[k]] ELSE ""]

\* df["_RowKey"] of line 208.
RowKey(frame, i) == build_key_col(frame.columns, frame.rows[i])

\* Lines 356-369 with the suppression left out.
filtered_view_unsuppressed(frame, s, keys) ==
    LET pre == filtered_pre_machine(frame, s.start, s.end)
        IsMachine(i) == frame.rows[i].Machine = s.machine
        IsCustomer(i) == frame.rows[i].Customer = s.customer
        byMachine ==
            IF s.machine # "All Machines" /\ "Machine" \in frame.columns
            THEN SelectSeq(pre, IsMachine) ELSE pre
        byCustomer ==
            IF s.customer # "All Customers" /\ "Customer" \in frame.columns
            THEN SelectSeq(byMachine, IsCustomer) ELSE byMachine
    IN IF "Finish" \in frame.columns
       THEN sort_values(frame, byCustomer, s.sort_order = "Earliest first")
       ELSE byCustomer

\* Lines 356-369.
filtered_view(frame, s, keys) ==
    LET pre == filtered_pre_machine(frame, s.start, s.end)
        IsMachine(i) == frame.rows[i].Machine = s.machine
        IsCustomer(i) == frame.rows[i].Customer = s.customer
        NotDeleted(i) == RowKey(frame, i) \notin keys
        byMachine ==
            IF s.machine # "All Machines" /\ "Machine" \in frame.columns
            THEN SelectSeq(pre, IsMachine) ELSE pre
        byCustomer ==
            IF s.customer # "All Customers" /\ "Customer" \in frame.columns
            THEN SelectSeq(byMachine, IsCustomer) ELSE byMachine
        sorted ==
            IF "Finish" \in frame.columns
            THEN sort_values(frame, byCustomer, s.sort_order = "Earliest first")
            ELSE byCustomer
    IN IF keys # {} THEN SelectSeq(sorted, NotDeleted) ELSE sorted

\* to_delete_keys of lines 441-446: the keys build_key_col makes of the
\* ticked rows of the edited table, which has the columns of show_cols.
to_delete_keys(frame, view, ticks) ==
    {build_key_col(show_cols(frame.columns), frame.rows[view[k]]) : k \in ticks}


MaxViewRows == 2

Customers == {"Acme", "Bolt"}

\* Records with no ROW column, so that the key is the joined one.  Acme
\* orders on both machines, Bolt on BO1 only.
ViewRecords ==
    {r \in [Machine : {"BO1", "JC1"}, Customer : Customers,
            Finish : {None} \cup {Some(d) : d \in FinishDates},
            Feeds : {6000}, Order_Value : {250}] :
        r.Customer = "Bolt" => r.Machine = "BO1"}

ViewColumns == {"Machine", "Customer", "Finish", "Feeds", "Order_Value"}

\* The dates st.date_input lets the user pick: the days from min_value to
\* max_value (the dates of FinishDates are days that follow each other).
pickable_dates(frame) ==
    {d \in FinishDates \cup {today} :
        DateLE(min_date(frame), d) /\ DateLE(d, max_date(frame))}

Selection(s, e, m, c, o) ==
    [start |-> s, end |-> e, machine |-> m, customer |-> c, sort_order |-> o]

\* The first run of a session: every widget at its default.
default_selection(frame) ==
    Selection(min_date(frame), max_date(frame), "All Machines",
              "All Customers", "Earliest first")

InitView ==
    /\ IdleRest
    /\ IdleRisk
    /\ IdleCols
    /\ IdlePO
    /\ sheet = NoFrame
    /\ \E rows \in SeqsUpTo(ViewRecords, MaxViewRows) :
          df = [columns |-> ViewColumns, rows |-> rows]
    /\ metrics = top_metrics(df)
    /\ util_df = Table(utilisation(df))
    /\ deleted = {}
    /\ sel = default_selection(df)
    /\ filtered = filtered_view(df, sel, deleted)

\* One run of the script with the given widget values and session state.
Rerun(s, keys) ==
    /\ sel' = s
    /\ deleted' = keys
    /\ metrics' = top_metrics(df)
    /\ util_df' = Table(utilisation(df))
    /\ filtered' = filtered_view(df, s, keys)
    /\ UNCHANGED <<sheet, df, riskVars, colVars, poVars, restVars>>

\* A select box keeps its value or falls back to its first option; it never
\* returns a value it does not offer.
KeepOrFirst(value, first, options) == {x \in {value, first} : x \in options}

\* The user sets the date range (lines 299-315).  The code takes the two
\* dates as the widget returns them and never compares them, so the pair is
\* any two days the widget offers, a start after the end included.
SetDateRange ==
    \E s \in pickable_dates(df), e \in pickable_dates(df) :
        LET pre == filtered_pre_machine(df, s, e)
        IN \E m \in KeepOrFirst(sel.machine, "All Machines", machine_options(df, pre)),
              c \in KeepOrFirst(sel.customer, "All Customers", customer_options(df, pre)) :
              /\ <<s, e>> # <<sel.start, sel.end>>
              /\ Rerun(Selection(s, e, m, c, sel.sort_order), deleted)

\* The user picks a machine (line 327).
SelectMachine ==
    \E m \in machine_options(df, filtered_pre_machine(df, sel.start, sel.end)) :
        /\ m # sel.machine
        /\ Rerun([sel EXCEPT !.machine = m], deleted)

\* The user picks a customer (lines 346-349).
SelectCustomer ==
    \E c \in customer_options(df, filtered_pre_machine(df, sel.start, sel.end)) :
        /\ c # sel.customer
        /\ Rerun([sel EXCEPT !.customer = c], deleted)

\* The user flips the sort order (line 329).
SetSortOrder ==
    \E o \in {"Earliest first", "Latest first"} :
        /\ o # sel.sort_order
        /\ Rerun([sel EXCEPT !.sort_order = o], deleted)

\* A deletion that drops the ticked rows from the frame itself.
DeleteSelectedInPlace ==
    /\ filtered # <<>>
    /\ \E ticks \in SUBSET (1..Len(filtered)) :
          LET keys == to_delete_keys(df, filtered, ticks)
              Kept(r) == build_key_col(df.columns, r) \notin keys
              left == [df EXCEPT !.rows = SelectSeq(df.rows, Kept)]
          IN /\ ticks # {}
             /\ df' = left
             /\ metrics' = top_metrics(left)
             /\ util_df' = Table(utilisation(left))
             /\ filtered' = filtered_view(left, sel, {})
             /\ UNCHANGED <<sheet, deleted, sel, riskVars, colVars, poVars, restVars>>

\* "Delete Selected (Local Only)" with some rows ticked or none (lines
\* 426-456); the button is there only while the view has rows.
DeleteSelected ==
    /\ filtered # <<>>
    /\ \E ticks \in SUBSET (1..Len(filtered)) :
          IF to_delete_keys(df, filtered, ticks) # {}
          THEN Rerun(sel, deleted \cup to_delete_keys(df, filtered, ticks))
          ELSE Rerun(sel, deleted)

\* "Reset Deleted Rows" (lines 458-461).
ResetDeleted ==
    /\ filtered # <<>>
    /\ Rerun(sel, {})

NextView ==
    \/ SetDateRange
    \/ SelectMachine
    \/ SelectCustomer
    \/ SetSortOrder
    \/ DeleteSelected
    \/ ResetDeleted

SpecView == InitView /\ [][NextView]_vars


(***************************************************************************)
(* Claims about the production view.                                       *)
(***************************************************************************)
\* C8: no row of the view has a key of the suppression set, whatever the
\* filters of the run are; while the set is empty, and right after "Reset
\* Deleted Rows", the view is the one the same filters give of the loaded
\* records with nothing suppressed.
C8_SuppressedUntilReset ==
    /\ [](\A k \in 1..Len(filtered) : RowKey(df, filtered[k]) \notin deleted)
    /\ [](deleted = {} => filtered = filtered_view(df, sel, {}))
    /\ [][ResetDeleted => (deleted' = {} /\ filtered' = filtered_view(df, sel', {}))]_vars

\* A row that the machine filter of the run lets through is hidden by its
\* key, next to one that is shown.
C8_Witness ==
    /\ deleted # {}
    /\ sel.machine # "All Machines"
    /\ filtered # <<>>
    /\ \E i \in 1..Len(df.rows) :
          /\ RowKey(df, i) \in deleted
          /\ \E k \in 1..Len(filtered_view(df, sel, {})) :
                filtered_view(df, sel, {})[k] = i

\* C9: no step of a session (a filter change, a local deletion, a reset)
\* changes the loaded records, the top metrics or the utilisation table.
C9_CanonicalSetUnchanged ==
    [][df' = df /\ metrics' = metrics /\ util_df' = util_df]_vars

\* Rows are suppressed and filtered away while the metrics still count
\* every loaded record.
C9_Witness ==
    /\ deleted # {}
    /\ sel.customer # "All Customers"
    /\ Len(filtered) < Len(df.rows)
    /\ metrics.total_orders = Len(df.rows)
    /\ metrics.total_value = 250 * Len(df.rows)
    /\ util_df.rows # <<>>

\* C19: every record of the view filtered by the range [start, end] has a
\* known finish date d with start <= d <= end; a set of records none of
\* which has a known date gives an empty view.
C19_KnownDatesInRange ==
    /\ \A k \in 1..Len(filtered) :
          /\ df.rows[filtered[k]].Finish # None
          /\ DateLE(sel.start, df.rows[filtered[k]].Finish[1])
          /\ DateLE(df.rows[filtered[k]].Finish[1], sel.end)
    /\ finish_dates(df) = {} => filtered = <<>>

(***************************************************************************)
(* The purchase order views: the section of the main dashboard (lines      *)
(* 556-715) and the Purchase Orders page (lines 92-183 of                  *)
(* pages/Purchase_Orders.py), on a sheet with the columns PO_Number,       *)
(* Product_Code, Qty_Outstanding, Current_Due_Date and Difference.         *)
(***************************************************************************)
due_dates(frame) ==
    IF "Current_Due_Date" \in frame.columns
    THEN {frame.rows[i].Current_Due_Date[1] :
            i \in {j \in 1..Len(frame.rows) : frame.rows[j].Current_Due_Date # None}}
    ELSE {}

\* Lines 561-565.
po_min_date(frame) ==
    IF due_dates(frame) # {}
    THEN CHOOSE d \in due_dates(frame) : \A e \in due_dates(frame) : DateLE(d, e)
    ELSE today

po_max_date(frame) ==
    IF due_dates(frame) # {}
    THEN CHOOSE d \in due_dates(frame) : \A e \in due_dates(frame) : DateLE(e, d)
    ELSE today

\* The rows whose due date is known and in the range.
due_in_range(frame, po_start, po_end) ==
    LET InRange(i) ==
            /\ frame.rows[i].Current_Due_Date # None
            /\ DateLE(po_start, frame.rows[i].Current_Due_Date[1])
            /\ DateLE(frame.rows[i].Current_Due_Date[1], po_end)
    IN SelectSeq(Indexes(frame), InRange)

\* Lines 586-591 of the main dashboard: no filter when no due date is known.
po_date_filter(frame, po_start, po_end) ==
    IF due_dates(frame) # {} THEN due_in_range(frame, po_start, po_end)
    ELSE Indexes(frame)

\* products_available with "All Products" (lines 624-637; page, 121-123).
product_options(frame, idx) ==
    {"All Products"} \cup
        (IF "Product_Code" \in frame.columns
         THEN {frame.rows[idx[k]].Product_Code : k \in 1..Len(idx)}
         ELSE {})

\* Lines 639-642; page, lines 124-125.
product_filter(frame, idx, selected_product) ==
    LET IsProduct(i) == frame.rows[i].Product_Code = selected_product
    IN IF "Product_Code" \in frame.columns /\ selected_product # "All Products"
       THEN SelectSeq(idx, IsProduct)
       ELSE idx

\* Lines 709-715: the rows of the table the main dashboard shows.
po_table(frame, idx) == IF idx # <<>> THEN idx ELSE Indexes(frame)

MaxPORows == 2

PORecords ==
    [PO_Number : {"PO1"}, Product_Code : {"P1", "P2"},
     Qty_Outstanding : {10},
     Current_Due_Date : {None} \cup {Some(d) : d \in FinishDates},
     Difference : {0, 2}]

POColumns ==
    {"PO_Number", "Product_Code", "Qty_Outstanding", "Current_Due_Date",
     "Difference"}

POSelection(page, s, e, p) ==
    [page |-> page, start |-> s, end |-> e, product |-> p]

InitPO ==
    /\ IdleRest
    /\ IdleRisk
    /\ IdleCols
    /\ IdleFrame
    /\ IdleView
    /\ \E rows \in SeqsUpTo(PORecords, MaxPORows) :
          po_df = [columns |-> POColumns, rows |-> rows]
    /\ po_sel = NoSel
    /\ po_filtered = <<>>
    /\ po_display = <<>>

\* A run of the main dashboard; the date_input offers the days from
\* po_min_date to po_max_date, and the code takes the pair as returned.
DashboardRun ==
    \E s \in FinishDates \cup {today}, e \in FinishDates \cup {today} :
        /\ DateLE(po_min_date(po_df), s) /\ DateLE(s, po_max_date(po_df))
        /\ DateLE(po_min_date(po_df), e) /\ DateLE(e, po_max_date(po_df))
        /\ \E p \in product_options(po_df, po_date_filter(po_df, s, e)) :
              /\ po_sel' = POSelection("dashboard", s, e, p)
              /\ po_filtered' = product_filter(po_df, po_date_filter(po_df, s, e), p)
              /\ po_display' =
                    po_table(po_df,
                             product_filter(po_df, po_date_filter(po_df, s, e), p))
        /\ UNCHANGED <<po_df, riskVars, colVars, frameVars, viewVars, restVars>>

\* A run of the Purchase Orders page; its date_input has no limits.
PageRun ==
    \E s \in FinishDates \cup {today}, e \in FinishDates \cup {today} :
        /\ \E p \in product_options(po_df, due_in_range(po_df, s, e)) :
              /\ po_sel' = POSelection("page", s, e, p)
              /\ po_filtered' = product_filter(po_df, due_in_range(po_df, s, e), p)
              /\ po_display' = product_filter(po_df, due_in_range(po_df, s, e), p)
        /\ UNCHANGED <<po_df, riskVars, colVars, frameVars, viewVars, restVars>>

NextPO == DashboardRun \/ PageRun

SpecPO == InitPO /\ [][NextPO]_vars

(***************************************************************************)
(* Claims about the purchase order views.                                  *)
(***************************************************************************)
\* C10: a run whose date range starts after it ends has an empty result and
\* shows an empty table, on the main dashboard and on the page.
C10_EmptyRangeShownEmpty ==
    (po_sel # NoSel /\ ~DateLE(po_sel.start, po_sel.end))
        => (po_filtered = <<>> /\ po_display = <<>>)


(***************************************************************************)
(* The purchase order part of one run, step by step, with the widgets at   *)
(* their defaults: lines 119-128 and 476-715 of the main dashboard, and    *)
(* lines 13-20 and 78-194 of the Purchase Orders page.  A step that raises *)
(* ends the run where it stands.                                           *)
(***************************************************************************)
Delivered(frame) == [ok |-> TRUE, frame |-> frame]

\* DataFrame.empty
IsEmptyFrame(frame) == frame.columns = {} \/ frame.rows = <<>>

\* The sheets of the model: every purchase order sheet with or without the
\* columns Current_Due_Date and Difference.
OptionalPOColumns == {"Current_Due_Date", "Difference"}

POSheets ==
    {[columns |-> POColumns \ gone,
      rows |-> [i \in 1..Len(rows) |->
                   [f \in POColumns \ gone |-> rows[i][f]]]] :
        gone \in SUBSET OptionalPOColumns,
        rows \in SeqsUpTo(PORecords, MaxPORows)}

InitRun ==
    /\ IdleRisk
    /\ IdleCols
    /\ IdleFrame
    /\ IdleView
    /\ IdlePO
    /\ IdleCache
    /\ IdleCoerce
    /\ IdleExport
    /\ po_source \in {NoSource} \cup {Delivered(f) : f \in POSheets}
    /\ pc \in {"dashboard: load", "page: load"}
    /\ raised = None
    /\ reported = {}
    /\ po_bound = FALSE

\* What no step of a run touches.
RunFrame ==
    UNCHANGED <<po_source, riskVars, colVars, frameVars, viewVars, cacheVars,
                coerceVars, csv>>

\* Lines 119-128: the load, and the empty frame in place of a failed one.
DashboardLoad ==
    /\ pc = "dashboard: load"
    /\ raised = None
    /\ IF po_source.ok
       THEN /\ po_df' = po_source.frame
            /\ reported' = reported \cup {"Loaded Progroup POs successfully"}
       ELSE /\ po_df' = NoFrame
            /\ reported' =
                  reported \cup {"Could not load data from Progroup POs sheet"}
    /\ pc' = "dashboard: section"
    /\ UNCHANGED <<po_sel, po_filtered, po_display, raised, po_bound>>
    /\ RunFrame

\* Lines 476-591: the message, or the metrics and the date filter, which
\* binds po_filtered.
DashboardSection ==
    /\ pc = "dashboard: section"
    /\ raised = None
    /\ IF IsEmptyFrame(po_df)
       THEN /\ reported' = reported \cup {"No purchase order data available"}
            /\ UNCHANGED <<po_sel, po_filtered, po_bound>>
       ELSE /\ po_sel' = POSelection("dashboard", po_min_date(po_df),
                                     po_max_date(po_df), "All Products")
            /\ po_filtered' =
                  po_date_filter(po_df, po_min_date(po_df), po_max_date(po_df))
            /\ po_bound' = TRUE
            /\ UNCHANGED reported
    /\ pc' = "dashboard: filters"
    /\ UNCHANGED <<po_df, po_display, raised>>
    /\ RunFrame

\* Lines 596-657, which stand outside the else of line 478: the first read
\* of po_filtered (line 598) raises when the name is not bound.
DashboardFilters ==
    /\ pc = "dashboard: filters"
    /\ raised = None
    /\ IF po_bound
       THEN /\ po_filtered' = product_filter(po_df, po_filtered, po_sel.product)
            /\ reported' =
                  reported \cup {"Column 'Active_Works_Orders' not found in PO sheet."}
            /\ pc' = "dashboard: table"
            /\ UNCHANGED raised
       ELSE /\ raised' = Some("NameError")
            /\ UNCHANGED <<po_filtered, reported, pc>>
    /\ UNCHANGED <<po_df, po_sel, po_display, po_bound>>
    /\ RunFrame

\* Lines 662-777.
DashboardTable ==
    /\ pc = "dashboard: table"
    /\ raised = None
    /\ po_display' = po_table(po_df, po_filtered)
    /\ reported' =
          reported \cup
            (IF po_filtered = <<>>
             THEN {"No purchase orders match the current filters"} ELSE {})
    /\ pc' = "dashboard: done"
    /\ UNCHANGED <<po_df, po_sel, po_filtered, raised, po_bound>>
    /\ RunFrame

\* Lines 13-20 of the page: st.stop() on a failed load and on an empty sheet.
PageLoad ==
    /\ pc = "page: load"
    /\ raised = None
    /\ IF ~po_source.ok
       THEN /\ reported' = reported \cup {"Failed to load Progroup POs sheet"}
            /\ pc' = "page: stopped"
            /\ UNCHANGED po_df
       ELSE IF IsEmptyFrame(po_source.frame)
       THEN /\ reported' =
                  reported \cup {"Could not load PO sheet or sheet is empty."}
            /\ pc' = "page: stopped"
            /\ UNCHANGED po_df
       ELSE /\ po_df' = po_source.frame
            /\ pc' = "page: filter"
            /\ UNCHANGED reported
    /\ UNCHANGED <<po_sel, po_filtered, po_display, raised, po_bound>>
    /\ RunFrame

\* Lines 78-107 of the page: the metrics, and the date filter, which reads
\* po_df["Current_Due_Date"] whether the column is there or not.
PageFilter ==
    /\ pc = "page: filter"
    /\ raised = None
    /\ IF "Current_Due_Date" \in po_df.columns
       THEN /\ po_sel' = POSelection("page", po_min_date(po_df),
                                     po_max_date(po_df), "All Products")
            /\ po_filtered' =
                  due_in_range(po_df, po_min_date(po_df), po_max_date(po_df))
            /\ po_bound' = TRUE
            /\ pc' = "page: table"
            /\ UNCHANGED raised
       ELSE /\ raised' = Some("KeyError")
            /\ UNCHANGED <<po_sel, po_filtered, po_bound, pc>>
    /\ UNCHANGED <<po_df, po_display, reported>>
    /\ RunFrame

\* Lines 112-183 of the page.
PageTable ==
    /\ pc = "page: table"
    /\ raised = None
    /\ po_filtered' = product_filter(po_df, po_filtered, po_sel.product)
    /\ po_display' = product_filter(po_df, po_filtered, po_sel.product)
    /\ pc' = "page: changes"
    /\ UNCHANGED <<po_df, po_sel, raised, reported, po_bound>>
    /\ RunFrame

\* Lines 188-252 of the page: po_df["Difference"] is read whether the column
\* is there or not.
PageChanges ==
    /\ pc = "page: changes"
    /\ raised = None
    /\ IF "Difference" \in po_df.columns
       THEN /\ reported' =
                  reported \cup
                    (IF \A i \in 1..Len(po_df.rows) : po_df.rows[i].Difference = 0
                     THEN {"No early or late orders."} ELSE {})
            /\ pc' = "page: done"
            /\ UNCHANGED raised
       ELSE /\ raised' = Some("KeyError")
            /\ UNCHANGED <<reported, pc>>
    /\ UNCHANGED <<po_df, po_sel, po_filtered, po_display, po_bound>>
    /\ RunFrame

NextRun ==
    \/ DashboardLoad
    \/ DashboardSection
    \/ DashboardFilters
    \/ DashboardTable
    \/ PageLoad
    \/ PageFilter
    \/ PageTable
    \/ PageChanges

SpecRun == InitRun /\ [][NextRun]_vars

(***************************************************************************)
(* Claims about the runs.                                                  *)
(***************************************************************************)
DashboardPlaces ==
    {"dashboard: load", "dashboard: section", "dashboard: filters",
     "dashboard: table", "dashboard: done"}

NoPurchaseOrders == ~po_source.ok \/ po_source.frame.rows = <<>>

\* C11: in a run of the main dashboard whose purchase order source fails or
\* has no rows, the state is reported once the section has run, no
\* purchase order table is shown, and no step raises.
C11_NoPurchaseOrdersReported ==
    (pc \in DashboardPlaces /\ NoPurchaseOrders) =>
        /\ raised = None
        /\ po_display = <<>>
        /\ pc \in {"dashboard: filters", "dashboard: table", "dashboard: done"}
              => "No purchase order data available" \in reported

\* C12: a run on a sheet with rows, with or without the columns
\* Current_Due_Date and Difference, raises nothing.
C12_MissingFieldNoException ==
    (po_source.ok /\ po_source.frame.rows # <<>>) => raised = None

(***************************************************************************)
(* The coercion of one cell (lines 168-180, and lines 59-71 of the purchase *)
(* order page, which are the same code under other column names): a cell   *)
(* of a number column goes through to_number and fillna(0), a cell of a    *)
(* date column through pd.to_datetime(errors="coerce", dayfirst=True).     *)
(***************************************************************************)
MaxCellLen == 4

\* The pound sign, one character of a cell.
Pound == "GBP"

CellChars == {"0", "1", ".", "-", Pound, " "}

\* Cells the sheets are known to hold or the code's comments name.
NamedCells ==
    {Txt(<<Pound, "1", "2", ",", "3", "4", "5", ".", "6", "7">>),
     Txt(<<" ", "9", "8", "0", " ">>),
     Txt(<<"1", "-", "2">>),
     Txt(<<"1", ".", "2", ".", "3">>),
     Num(980), Num(0), Num(0 - 5)}

NumberCells == NamedCells \cup {Txt(q) : q \in SeqsUpTo(CellChars, MaxCellLen)}

DateCells ==
    {Str(<<>>), Str(<<WordTok>>), Str(<<WordTok, WordTok>>)}
    \cup {Str(<<DateTok(d[1], d[2], d[3], 2, 2, 4, "/")>>) :
            d \in {<<27, 2, 2024>>, <<30, 12, 2024>>, <<1, 3, 2024>>,
                   <<31, 2, 2024>>, <<0, 1, 2024>>}}

InitCoerce ==
    /\ text = NonText
    /\ today \in Todays
    /\ risk = NotRun
    /\ IdleCols
    /\ IdleFrame
    /\ IdleView
    /\ IdlePO
    /\ IdleRun
    /\ IdleCache
    /\ IdleExport
    /\ input \in [col : {"number"}, cell : NumberCells]
                   \cup [col : {"date"}, cell : DateCells]
    /\ coerced = NotRun

CoerceFrame ==
    UNCHANGED <<riskVars, colVars, frameVars, viewVars, poVars, runVars,
                cacheVars, csv, input>>

\* Lines 174-176 (and 65-67 of the page) on one cell.
CoerceNumber ==
    /\ coerced = NotRun
    /\ input.col = "number"
    /\ coerced' = [value |-> coerce_number(input.cell)]
    /\ CoerceFrame

\* Lines 179-180 (and 69-71 of the page) on one cell.
CoerceDate ==
    /\ coerced = NotRun
    /\ input.col = "date"
    /\ coerced' = [value |-> to_datetime(input.cell)]
    /\ CoerceFrame

NextCoerce ==
    \/ CoerceNumber
    \/ CoerceDate

SpecCoerce == InitCoerce /\ [][NextCoerce]_vars

(***************************************************************************)
(* Claims about the coercion.                                              *)
(***************************************************************************)
KeptChars == {"0", "1", "2", "3", "4", "5", "6", "7", "8", "9", ".", "-"}
IsKept(c) == c \in KeptChars
AllDigits(q) == \A i \in 1..Len(q) : q[i] \in (KeptChars \ {".", "-"})

\* What is left of the cell's text without the other characters.
Remainder == SelectSeq(astype_str(input.cell), IsKept)

Unsigned(q) == IF q # <<>> /\ q[1] = "-" THEN Tail(q) ELSE q

\* The places where an unsigned writing splits into digits before and
\* digits after one optional point, with a digit somewhere.
Splits(b) ==
    {k \in 0..Len(b) :
        /\ AllDigits(SubSeq(b, 1, k))
        /\ \/ k = Len(b)
           \/ b[k + 1] = "." /\ AllDigits(SubSeq(b, k + 2, Len(b)))
        /\ \E i \in 1..Len(b) : b[i] # "."}

WellFormedNumber(q) == Splits(Unsigned(q)) # {}

ValueOfNumber(q) ==
    LET b == Unsigned(q)
        k == CHOOSE k \in Splits(b) : TRUE
    IN Decimal(IF b = q THEN 1 ELSE 0 - 1,
               DigitsValue(SubSeq(b, 1, k)),
               rstrip_zeros(SubSeq(b, k + 2, Len(b))))

IsDateText(cell) ==
    /\ Len(cell.toks) = 1
    /\ cell.toks[1].k = "date"
    /\ IsCalendarDate(cell.toks[1].year, cell.toks[1].month, cell.toks[1].day)

IsDecimal(v) ==
    /\ DOMAIN v = {"sign", "whole", "frac"}
    /\ v.sign \in {0 - 1, 1}
    /\ v.whole \in Nat

\* C14: the coercion of a cell always yields a value.  Of a number cell it
\* is the decimal value of what is left of the text without the characters
\* other than digits, "." and "-", when that is a well-formed number, and 0
\* when it is empty or malformed.  Of a date cell whose text is not a date
\* it is unknown, and not today.
C14_CoercionTotalSafeDefault ==
    coerced # NotRun =>
        /\ input.col = "number" =>
              /\ IsDecimal(coerced.value)
              /\ coerced.value = IF WellFormedNumber(Remainder)
                                 THEN ValueOfNumber(Remainder)
                                 ELSE Zero
        /\ input.col = "date" =>
              /\ coerced.value = None \/ Len(coerced.value) = 1
              /\ ~IsDateText(input.cell) =>
                    coerced.value = None /\ coerced.value # Some(today)

\* The cell with a currency sign and a thousands separator is coerced to
\* its value, 12345.67.
C14_Witness ==
    /\ input = [col |-> "number",
                cell |-> Txt(<<Pound, "1", "2", ",", "3", "4", "5", ".",
                               "6", "7">>)]
    /\ coerced # NotRun
    /\ coerced.value = Decimal(1, 12345, <<"6", "7">>)

(***************************************************************************)
(* The downloads of the main dashboard: the production view (line 420)     *)
(* and the purchase order view (line 699), both written by                 *)
(* DataFrame.to_csv(index=False).  A written date is its day with the      *)
(* order of its parts and the separator between them.                      *)
(***************************************************************************)
MaxExportRows == 1

WrittenDate(order, sep, d) == [blank |-> FALSE, order |-> order, sep |-> sep, date |-> d]
BlankField == [blank |-> TRUE, order |-> "", sep |-> "", date |-> Date(1, 1, 1)]

\* Series.dt.strftime("%d/%m/%Y") of line 685, on one cell.
strftime_dmy(cell) ==
    IF cell = None THEN BlankField ELSE WrittenDate("DMY", "/", cell[1])

\* to_csv on one cell of a datetime64 column whose times are all midnight:
\* the ISO writing of the day, and nothing for NaT.
csv_datetime(cell) ==
    IF cell = None THEN BlankField ELSE WrittenDate("YMD", "-", cell[1])

DateColumns == {"Finish", "Orig_Due_Date", "Current_Due_Date", "Acknowledge_Date", "WO_Due_Date"}

preferred_cols_po ==
    <<"PO_Number", "Supplier_Trip_No", "Product_Code", "Qty_Outstanding",
      "Orig_Due_Date", "Current_Due_Date", "Difference",
      "Active_Works_Orders", "Customer", "WO_Due_Date">>

\* [c for c in preferred if c in columns] (lines 411 and 674); the frames of
\* the model all have a preferred column.
ordered_cols(preferred, cols) ==
    LET InFrame(c) == c \in cols
    IN SelectSeq(preferred, InFrame)

\* frame[cols].to_csv(index=False) of the rows idx.
to_csv(frame, idx, cols) ==
    [header |-> cols,
     lines |-> [k \in 1..Len(idx) |->
                  [c \in Range(cols) |->
                      IF c \in DateColumns THEN csv_datetime(frame.rows[idx[k]][c])
                      ELSE frame.rows[idx[k]][c]]]]

\* The dashboard after a run with the widgets at their defaults.
InitExport ==
    /\ IdleRisk
    /\ IdleCols
    /\ IdleRun
    /\ IdleCache
    /\ IdleCoerce
    /\ sheet = NoFrame
    /\ \E rows \in SeqsUpTo(ViewRecords, MaxExportRows) :
          df = [columns |-> ViewColumns, rows |-> rows]
    /\ metrics = top_metrics(df)
    /\ util_df = Table(utilisation(df))
    /\ deleted = {}
    /\ sel = default_selection(df)
    /\ filtered = filtered_view(df, sel, deleted)
    /\ \E rows \in SeqsUpTo(PORecords, MaxExportRows) :
          po_df = [columns |-> POColumns, rows |-> rows]
    /\ po_sel = POSelection("dashboard", po_min_date(po_df), po_max_date(po_df),
                            "All Products")
    /\ po_filtered = po_date_filter(po_df, po_sel.start, po_sel.end)
    /\ po_display = po_table(po_df, po_filtered)
    /\ csv = None

ExportFrame ==
    UNCHANGED <<riskVars, colVars, frameVars, viewVars, poVars, runVars,
                cacheVars, coerceVars>>

\* Lines 418-424.
DownloadCurrentView ==
    /\ csv' = Some(to_csv(df, filtered, ordered_cols(preferred_cols, df.columns)))
    /\ ExportFrame

\* Lines 697-704; the script gets there when there are purchase orders.
DownloadPOView ==
    /\ ~IsEmptyFrame(po_df)
    /\ csv' = Some(to_csv(po_df, po_filtered,
                          ordered_cols(preferred_cols_po, po_df.columns)))
    /\ ExportFrame

NextExport ==
    \/ DownloadCurrentView
    \/ DownloadPOView

SpecExport == InitExport /\ [][NextExport]_vars

(***************************************************************************)
(* Claims about the downloads.                                             *)
(***************************************************************************)
CanonicalHeaders == Range(preferred_cols) \cup Range(preferred_cols_po)

IsUKDate(w) == w.order = "DMY" /\ w.sep = "/"

\* C15: a download has canonical column headers, and in every line the
\* date of a date column, when it is known, is written DD/MM/YYYY.
C15_ExportDatesUK ==
    csv # None =>
        /\ Range(csv[1].header) \subseteq CanonicalHeaders
        /\ \A k \in 1..Len(csv[1].lines) :
              \A c \in Range(csv[1].header) \cap DateColumns :
                  ~csv[1].lines[k][c].blank => IsUKDate(csv[1].lines[k][c])

(***************************************************************************)
(* The cached loader: load_sheet under @st.cache_data(ttl=120) (lines      *)
(* 67-72) and the "Refresh data" button (lines 107-109).  The cache holds  *)
(* at most one entry for the one pair of arguments the script passes: the  *)
(* snapshot and the second it was stored at.  An entry expires ttl seconds *)
(* after it was stored; a call that raises stores nothing.  The source is  *)
(* the number of the sheet's present version, or 0 when it cannot be read. *)
(***************************************************************************)
TTL == 120

MaxClock == 240
MaxVersion == 2

\* Seconds between two events.
Delays == {59, 60, 61}

Entry(snapshot, t) == [snapshot |-> snapshot, at |-> t]

\* An entry that counts as live for one more second than the ttl.
is_live_at_ttl(entry, t) == entry # None /\ t - entry[1].at <= TTL

\* Whether the cache still holds the entry at second t.
is_live(entry, t) == entry # None /\ t - entry[1].at < TTL

Outcome(contacted, raised_, value) ==
    [contacted |-> contacted, raised |-> raised_, value |-> value]

InitCache ==
    /\ IdleRisk
    /\ IdleCols
    /\ IdleFrame
    /\ IdleView
    /\ IdlePO
    /\ IdleRun
    /\ IdleCoerce
    /\ IdleExport
    /\ cache = None
    /\ clock = 0
    /\ source \in 0..MaxVersion
    /\ outcome = NotRun

CacheFrame ==
    UNCHANGED <<riskVars, colVars, frameVars, viewVars, poVars, runVars,
                coerceVars, csv>>

\* Time passes.
Advance ==
    /\ \E d \in Delays : clock + d <= MaxClock /\ clock' = clock + d
    /\ UNCHANGED <<cache, source, outcome>>
    /\ CacheFrame

\* The sheet is edited, becomes unreadable or readable again.
SourceChanges ==
    /\ \E v \in 0..MaxVersion : v # source /\ source' = v
    /\ UNCHANGED <<cache, clock, outcome>>
    /\ CacheFrame

\* One run of the script down to the production load (lines 107-117);
\* reload tells whether "Refresh data" started it.
Run(reload) ==
    LET kept == IF reload THEN None ELSE cache
    IN /\ IF is_live(kept, clock)
          THEN /\ outcome' = Outcome(FALSE, FALSE, Some(kept[1].snapshot))
               /\ cache' = kept
          ELSE IF source = 0
          THEN /\ outcome' = Outcome(TRUE, TRUE, None)
               /\ cache' = None
          ELSE /\ outcome' = Outcome(TRUE, FALSE, Some(source))
               /\ cache' = Some(Entry(source, clock))
       /\ UNCHANGED <<clock, source>>
       /\ CacheFrame

NextCache ==
    \/ Advance
    \/ SourceChanges
    \/ \E reload \in BOOLEAN : Run(reload)

SpecCache == InitCache /\ [][NextCache]_vars

(***************************************************************************)
(* Claims about the cached loader.                                         *)
(***************************************************************************)
\* The snapshot of the last successful fetch is younger than the TTL.
YoungSnapshot == cache # None /\ clock - cache[1].at < TTL

\* What the claim says of a load.
AsClaimed(reload) ==
    IF YoungSnapshot /\ ~reload
    THEN /\ ~outcome'.contacted
         /\ ~outcome'.raised
         /\ outcome'.value = Some(cache[1].snapshot)
    ELSE /\ outcome'.contacted
         /\ IF source = 0
            THEN outcome'.raised /\ outcome'.value = None
            ELSE ~outcome'.raised /\ outcome'.value = Some(source)

MaxTripRows == 3

AllTrips == Txt(<<"A", "l", "l", " ", "T", "r", "i", "p", "s">>)

\* Trip numbers as the sheet writes them.
TripCells == {Txt(<<"7">>), Txt(<<"1", "2">>), Txt(<<"T", "1">>)}

TripRecords == [PO_Number : {"PO1"}, Supplier_Trip_No : TripCells]

\* gspread's numericise on one cell: the number when the text is one.
numericise(cell) ==
    IF cell.chars # <<>> /\ \A i \in 1..Len(cell.chars) : IsDigit(cell.chars[i])
    THEN Num(DigitsValue(cell.chars))
    ELSE cell

\* pd.DataFrame(ws.get_all_records()) of utils.load_po_sheet.
get_all_records(written) ==
    [columns |-> written.columns,
     rows |-> [i \in 1..Len(written.rows) |->
                 [written.rows[i] EXCEPT
                     !.Supplier_Trip_No = numericise(written.rows[i].Supplier_Trip_No)]]]

\* pd.DataFrame(data, columns=header) over ws.get_all_values().
get_all_values(written) == written

\* Lines 650-651 of the main dashboard: the values of the column.
trip_options(frame, idx) ==
    {AllTrips} \cup {frame.rows[idx[k]].Supplier_Trip_No : k \in 1..Len(idx)}

\* Lines 131-137 of the page: the values of the column as texts.
trips(frame, idx) ==
    {AllTrips} \cup {Txt(astype_str(frame.rows[idx[k]].Supplier_Trip_No)) : k \in 1..Len(idx)}

\* Lines 656-657; page, lines 138-139: the column is compared as it is.
trip_filter(frame, idx, trip) ==
    LET IsTrip(i) == frame.rows[i].Supplier_Trip_No = trip
    IN IF trip # AllTrips THEN SelectSeq(idx, IsTrip) ELSE idx

TripSelection(page, trip) == [page |-> page, trip |-> trip]

InitTrip ==
    /\ IdleRisk
    /\ IdleCols
    /\ IdleView
    /\ IdleRest
    /\ \E rows \in SeqsUpTo(TripRecords, MaxTripRows) :
          sheet = [columns |-> {"PO_Number", "Supplier_Trip_No"}, rows |-> rows]
    /\ df = NoFrame
    /\ metrics = NoMetrics
    /\ util_df = NoTable
    /\ IdlePO

TripFrame ==
    UNCHANGED <<riskVars, colVars, frameVars, viewVars, restVars>>

\* A run of the main dashboard in which a trip is selected.
DashboardTrip ==
    LET frame == get_all_values(sheet)
    IN /\ frame.rows # <<>>
       /\ \E trip \in trip_options(frame, Indexes(frame)) :
             /\ po_df' = frame
             /\ po_sel' = TripSelection("dashboard", trip)
             /\ po_filtered' = trip_filter(frame, Indexes(frame), trip)
             /\ po_display' = po_table(frame, trip_filter(frame, Indexes(frame), trip))
       /\ TripFrame

\* A run of the Purchase Orders page in which a trip is selected.
PageTrip ==
    LET frame == get_all_records(sheet)
    IN /\ frame.rows # <<>>
       /\ \E trip \in trips(frame, Indexes(frame)) :
             /\ po_df' = frame
             /\ po_sel' = TripSelection("page", trip)
             /\ po_filtered' = trip_filter(frame, Indexes(frame), trip)
             /\ po_display' = trip_filter(frame, Indexes(frame), trip)
       /\ TripFrame

NextTrip ==
    \/ DashboardTrip
    \/ PageTrip

SpecTrip == InitTrip /\ [][NextTrip]_vars

(***************************************************************************)
(* Claims about the trip number filter.                                    *)
(***************************************************************************)
\* The records of the loaded purchase orders whose trip number reads as the
\* selected one.
RecordsOfTrip ==
    LET ReadsAsTrip(i) ==
            astype_str(po_df.rows[i].Supplier_Trip_No) = po_sel.trip.chars
    IN SelectSeq(Indexes(po_df), ReadsAsTrip)

\* C20: after the selection of a trip number that the dropdown offers, the
\* view holds exactly the records with that trip number, and at least one,
\* whether the trip numbers are loaded as texts or as numbers.
C20_TripSelectionExact ==
    (po_df # NoFrame /\ po_sel.trip # AllTrips) =>
        /\ po_filtered = RecordsOfTrip
        /\ po_filtered # <<>>

(***************************************************************************)
(* A browser session with "Refresh data" (lines 107-117): the button       *)
(* clears st.cache_data, so the run loads the sheet as it is by then; the  *)
(* session state, st.session_state.locally_deleted_keys (lines 209-210),   *)
(* is not touched.  The other steps are those of the production view.      *)
(***************************************************************************)
MaxSessionRows == 2

\* Two orders of one machine, of two customers and on two days, so that the
\* keys of a session stay few.
SessionRecords ==
    {r \in ViewRecords :
        /\ r.Machine = "BO1"
        /\ r.Finish = IF r.Customer = "Acme" THEN Some(Date(2024, 1, 1))
                                            ELSE Some(Date(2024, 1, 2))}

SessionFrames ==
    {[columns |-> ViewColumns, rows |-> rows] :
        rows \in SeqsUpTo(SessionRecords, MaxSessionRows)}

InitSession ==
    /\ IdleRest
    /\ IdleRisk
    /\ IdleCols
    /\ IdlePO
    /\ sheet = NoFrame
    /\ df \in SessionFrames
    /\ metrics = top_metrics(df)
    /\ util_df = Table(utilisation(df))
    /\ deleted = {}
    /\ sel = default_selection(df)
    /\ filtered = filtered_view(df, sel, deleted)

\* Whether the widgets can hold the selection over the frame.
offered(frame, s) ==
    LET pre == filtered_pre_machine(frame, s.start, s.end)
    IN /\ DateLE(min_date(frame), s.start) /\ DateLE(s.start, max_date(frame))
       /\ DateLE(min_date(frame), s.end) /\ DateLE(s.end, max_date(frame))
       /\ s.machine \in machine_options(frame, pre)
       /\ s.customer \in customer_options(frame, pre)

\* A refresh that also starts the session state anew.
RefreshDataNewSession ==
    \E fresh \in SessionFrames :
        /\ df' = fresh
        /\ metrics' = top_metrics(fresh)
        /\ util_df' = Table(utilisation(fresh))
        /\ deleted' = {}
        /\ sel' = default_selection(fresh)
        /\ filtered' = filtered_view(fresh, default_selection(fresh), {})
        /\ UNCHANGED <<sheet, riskVars, colVars, poVars, restVars>>

\* "Refresh data": the cache is cleared (line 109) and the script runs on
\* the sheet as it is now.  The widgets keep their values when they can
\* still hold them, or fall back to their defaults.
RefreshData ==
    \E fresh \in SessionFrames :
        \E s \in {x \in {sel, default_selection(fresh)} : offered(fresh, x)} :
            /\ df' = fresh
            /\ metrics' = top_metrics(fresh)
            /\ util_df' = Table(utilisation(fresh))
            /\ deleted' = deleted
            /\ sel' = s
            /\ filtered' = filtered_view(fresh, s, deleted)
            /\ UNCHANGED <<sheet, riskVars, colVars, poVars, restVars>>

NextSession ==
    \/ NextView
    \/ RefreshData

SpecSession == InitSession /\ [][NextSession]_vars

(***************************************************************************)
(* Claims about the session.                                               *)
(***************************************************************************)
\* The keys of the rows of the view at the given places.
KeysOfTicked(ticks) == {RowKey(df, filtered[k]) : k \in ticks}

=============================================================================
